---- MODULE Spec2Model ----
(***************************************************************************)
(* Model of the text-based zombie game of src/main.py: the Grid (position  *)
(* dictionary plus entity list), the Game (step counter, step sweep over a *)
(* snapshot of the grid, player movement, win/loss), the entity behaviours *)
(* (Zombie, TrackingZombie, HoldingPlayer), the Inventory of timed pickups *)
(* and the text interfaces' handle_action / play.                          *)
(*                                                                         *)
(* Entities are object identities 1, 2, ... ; cls gives each one's class.  *)
(* A Python dict is a sequence of [key, value] records in insertion order; *)
(* a Python list is a sequence.                                            *)
(***************************************************************************)
EXTENDS Integers, Sequences, FiniteSets, TLC

VARIABLES
    grid,             \* Game.grid: [size, EntityLocations, entities]
    cls,              \* class of every entity object created so far
    remaining_steps,  \* Pickup.remaining_steps of every entity (0: not a Pickup)
    infected,         \* VulnerablePlayer.infected of the player object
    items,            \* Inventory.items of the player's inventory
    no_steps,         \* Game.no_steps
    gameClass,        \* class of the Game object
    interfaceClass,   \* class of the interface object
    pc,               \* "input": between handle_action calls; "sweep": inside Game.step
    snapshot,         \* the dictionary Game.step iterates over
    idx,              \* position of Game.step's loop in snapshot
    invoked,          \* entities whose step() ran in the current sweep, in order
    infectLog,        \* entities whose step() called infect() in the current sweep
    sweepStart,       \* Grid.entities as it was when the current sweep began
    heldSweeps,       \* per entity: sweeps begun since it was put in the inventory
    printed,          \* messages printed by the current handle_action
    outcome,          \* what play() printed when its loop ended ("none": still looping)
    lastAction,       \* the action (and firing direction) of the current handle_action
    pre               \* the state the current handle_action started from

vars == <<grid, cls, remaining_steps, infected, items, no_steps, gameClass,
          interfaceClass, pc, snapshot, idx, invoked, infectLog, sweepStart, heldSweeps,
          printed, outcome, lastAction, pre>>

-----------------------------------------------------------------------------
(* Bounds of the model *)

\* handle_action is not called once Game.no_steps has reached MaxSteps
MaxSteps == 12

\* SpecGrid: at most MaxObjects entity objects are ever created, and
\* handle_action is not called once Game.no_steps has reached MaxGridSteps
MaxObjects   == 2
MaxGridSteps == 1
\* SpecTrack: side of the grid and handle_action calls made
TrackSize     == 5
MaxTrackSteps == 1
\* SpecWander: handle_action calls made
MaxWanderSteps == 1
\* SpecFire: handle_action calls made
MaxFireSteps == 2

-----------------------------------------------------------------------------
(* main_support: constants and Position *)

None == 0
NoPosition == <<>>

UP    == "W"
LEFT  == "A"
DOWN  == "S"
RIGHT == "D"
FIRE  == "F"
DIRECTIONS == {UP, LEFT, DOWN, RIGHT}

PLAYER          == "P"
HOSPITAL        == "H"
ZOMBIE          == "Z"
TRACKING_ZOMBIE == "T"
GARLIC          == "G"
CROSSBOW        == "C"

GarlicLifetime   == 10
CrossbowLifetime == 5
LIFETIMES == [t \in {GARLIC, CROSSBOW} |->
                 IF t = GARLIC THEN GarlicLifetime ELSE CrossbowLifetime]

NO_WEAPON_MESSAGE      == "You are not holding anything to fire!"
INVALID_FIRING_MESSAGE == "Invalid firing direction entered!"
NO_ZOMBIE_MESSAGE      == "No zombie in that direction!"
WIN_MESSAGE            == "won"
LOSE_MESSAGE           == "lost"

Position(x, y) == <<x, y>>
get_x(p) == p[1]
get_y(p) == p[2]
add(p, other) == Position(get_x(p) + get_x(other), get_y(p) + get_y(other))
Abs(n) == IF n < 0 THEN -n ELSE n
distance(p, other) == Abs(get_x(other) - get_x(p)) + Abs(get_y(other) - get_y(p))

\* the four unit offsets random_directions() returns, in every order
OFFSETS == {<<0, 1>>, <<0, -1>>, <<1, 0>>, <<-1, 0>>}
random_directions == {s \in [1..4 -> OFFSETS] : \A i, j \in 1..4 : i # j => s[i] # s[j]}

-----------------------------------------------------------------------------
(* Class hierarchy (isinstance) *)

PlayerClasses == {"Player", "VulnerablePlayer", "HoldingPlayer"}
ZombieClasses == {"Zombie", "TrackingZombie"}
PickupClasses == {"Garlic", "Crossbow"}
Classes == PlayerClasses \cup ZombieClasses \cup PickupClasses \cup {"Hospital"}

IsPlayer(e) == e # None /\ cls[e] \in PlayerClasses
IsZombie(e) == e # None /\ cls[e] \in ZombieClasses
IsPickup(e) == e # None /\ cls[e] \in PickupClasses

display(c) ==
    CASE c \in PlayerClasses  -> PLAYER
      [] c = "Hospital"       -> HOSPITAL
      [] c = "Zombie"         -> ZOMBIE
      [] c = "TrackingZombie" -> TRACKING_ZOMBIE
      [] c = "Garlic"         -> GARLIC
      [] c = "Crossbow"       -> CROSSBOW

\* Entity.__repr__ / Player.__repr__ (a Pickup's repr carries its lifetime)
repr(e) ==
    IF cls[e] \in PlayerClasses THEN "Player()"
    ELSE IF cls[e] \in PickupClasses
         THEN cls[e] \o "(" \o ToString(remaining_steps[e]) \o ")"
    ELSE cls[e] \o "()"

\* Pickup.__init__
Pickup_init(c) ==
    IF c = "Garlic" THEN LIFETIMES[GARLIC]
    ELSE IF c = "Crossbow" THEN LIFETIMES[CROSSBOW]
    ELSE 0

-----------------------------------------------------------------------------
(* Python dict and list primitives *)

DictHas(d, k) == \E i \in 1..Len(d) : d[i].key = k
DictGet(d, k) ==
    IF DictHas(d, k) THEN d[CHOOSE i \in 1..Len(d) : d[i].key = k].value ELSE None
DictPop(d, k) == SelectSeq(d, LAMBDA kv : kv.key # k)
DictUpdate(d, k, v) ==
    IF DictHas(d, k)
    THEN [i \in 1..Len(d) |-> IF d[i].key = k THEN [key |-> k, value |-> v] ELSE d[i]]
    ELSE Append(d, [key |-> k, value |-> v])

\* list.remove: deletes the first element equal to v
ListRemove(l, v) ==
    IF \E i \in 1..Len(l) : l[i] = v
    THEN LET i == CHOOSE i \in 1..Len(l) : l[i] = v /\ \A j \in 1..(i - 1) : l[j] # v
         IN  SubSeq(l, 1, i - 1) \o SubSeq(l, i + 1, Len(l))
    ELSE l

Range(s) == {s[i] : i \in 1..Len(s)}
Count(s, v) == Cardinality({i \in 1..Len(s) : s[i] = v})

-----------------------------------------------------------------------------
(* Grid *)

Grid(size) == [size |-> size, EntityLocations |-> <<>>, entities |-> <<>>]

\* in_bounds with <= size for < size
in_bounds_wide(g, position) ==
    IF 0 <= get_x(position) /\ get_x(position) <= g.size
       /\ 0 <= get_y(position) /\ get_y(position) <= g.size
    THEN TRUE
    ELSE FALSE

\* in_bounds that tests the coordinates against the size only
in_bounds_upper(g, position) ==
    IF get_x(position) < g.size /\ get_y(position) < g.size
    THEN TRUE
    ELSE FALSE

in_bounds(g, position) ==
    IF 0 <= get_x(position) /\ get_x(position) < g.size
       /\ 0 <= get_y(position) /\ get_y(position) < g.size
    THEN TRUE
    ELSE FALSE

\* add_entity without the test of the bounds
add_entity_unchecked(g, position, entity) ==
    LET entity_removed == DictGet(g.EntityLocations, position)
        locations      == DictPop(g.EntityLocations, position)
        ents           == IF entity_removed # None
                          THEN ListRemove(g.entities, entity_removed)
                          ELSE g.entities
    IN  [g EXCEPT !.EntityLocations = DictUpdate(locations, position, entity),
                  !.entities = Append(ents, entity)]

\* add_entity that leaves the entity it replaces in the list
add_entity_keeps(g, position, entity) ==
    IF in_bounds(g, position) = FALSE THEN g
    ELSE LET locations == DictPop(g.EntityLocations, position)
         IN  [g EXCEPT !.EntityLocations = DictUpdate(locations, position, entity),
                       !.entities = Append(g.entities, entity)]

add_entity(g, position, entity) ==
    IF in_bounds(g, position) = FALSE THEN g
    ELSE LET entity_removed == DictGet(g.EntityLocations, position)
             locations      == DictPop(g.EntityLocations, position)
             ents           == IF entity_removed # None
                               THEN ListRemove(g.entities, entity_removed)
                               ELSE g.entities
         IN  [g EXCEPT !.EntityLocations = DictUpdate(locations, position, entity),
                       !.entities = Append(ents, entity)]

remove_entity(g, position) ==
    IF in_bounds(g, position) = FALSE THEN g
    ELSE LET entity_at_position == DictGet(g.EntityLocations, position)
             locations          == DictPop(g.EntityLocations, position)
         IN  IF entity_at_position # None
             THEN [g EXCEPT !.EntityLocations = locations,
                            !.entities = ListRemove(g.entities, entity_at_position)]
             ELSE [g EXCEPT !.EntityLocations = locations]

get_entity(g, position) ==
    IF in_bounds(g, position) = FALSE THEN None
    ELSE DictGet(g.EntityLocations, position)

\* a dictionary filled in the order of the list of entities
get_mapping_listed(g) ==
    [i \in 1..Len(g.entities) |->
        [key |-> g.EntityLocations[CHOOSE j \in 1..Len(g.EntityLocations) :
                                      g.EntityLocations[j].value = g.entities[i]].key,
         value |-> g.entities[i]]]

\* a new dictionary with the items of EntityLocations, in its iteration order
get_mapping(g) == g.EntityLocations

get_entities(g) == g.entities

\* move_entity that overwrites the end cell in the dictionary only
move_entity_overwrite(g, start, end) ==
    IF in_bounds(g, start) = FALSE \/ in_bounds(g, end) = FALSE THEN g
    ELSE LET entity_at_start == DictGet(g.EntityLocations, start)
             popped == [g EXCEPT !.EntityLocations = DictPop(@, start)]
         IN  IF entity_at_start # None
             THEN [popped EXCEPT !.EntityLocations =
                                    DictUpdate(DictPop(@, end), end, entity_at_start)]
             ELSE popped

\* move_entity that takes the entity off the grid and adds it at end
move_entity_readd(g, start, end) ==
    IF in_bounds(g, start) = FALSE \/ in_bounds(g, end) = FALSE THEN g
    ELSE LET entity_at_start == DictGet(g.EntityLocations, start)
         IN  IF entity_at_start # None
             THEN add_entity(remove_entity(g, start), end, entity_at_start)
             ELSE g

\* move_entity that reads the start cell without popping it
move_entity_copy(g, start, end) ==
    IF in_bounds(g, start) = FALSE \/ in_bounds(g, end) = FALSE THEN g
    ELSE LET entity_at_start == DictGet(g.EntityLocations, start)
         IN  IF entity_at_start # None
             THEN LET removed == remove_entity(g, end)
                  IN  [removed EXCEPT !.EntityLocations =
                                         DictUpdate(@, end, entity_at_start)]
             ELSE g

\* a move that gives the item of start the key end where it stands
move_entity_in_place(g, start, end) ==
    IF in_bounds(g, start) = FALSE \/ in_bounds(g, end) = FALSE THEN g
    ELSE LET entity_at_start == DictGet(g.EntityLocations, start)
         IN  IF entity_at_start # None /\ start # end
             THEN LET removed == remove_entity(g, end)
                  IN  [removed EXCEPT !.EntityLocations =
                          [i \in 1..Len(@) |->
                              IF @[i].key = start
                              THEN [key |-> end, value |-> entity_at_start]
                              ELSE @[i]]]
             ELSE g

move_entity(g, start, end) ==
    IF in_bounds(g, start) = FALSE \/ in_bounds(g, end) = FALSE THEN g
    ELSE LET entity_at_start == DictGet(g.EntityLocations, start)
             popped == [g EXCEPT !.EntityLocations = DictPop(@, start)]
         IN  IF entity_at_start # None
             THEN LET removed == remove_entity(popped, end)
                  IN  [removed EXCEPT !.EntityLocations =
                                         DictUpdate(@, end, entity_at_start)]
             ELSE popped

\* the key of the first item of EntityLocations whose value is a Player
find_player(g) ==
    LET d == g.EntityLocations
        hits == {i \in 1..Len(d) : IsPlayer(d[i].value)}
    IN  IF hits = {} THEN NoPosition
        ELSE d[CHOOSE i \in hits : \A j \in hits : i <= j].key

serialize(g) ==
    [i \in 1..Len(g.EntityLocations) |->
        [key |-> g.EntityLocations[i].key, value |-> display(cls[g.EntityLocations[i].value])]]

-----------------------------------------------------------------------------
(* Pickup and Inventory *)

get_durability(e) == IF cls[e] = "Garlic" THEN LIFETIMES[GARLIC] ELSE LIFETIMES[CROSSBOW]

get_lifetime(rem, item) == rem[item]

\* hold() that takes one step off every pickup there is
hold_all(rem, item) == [e \in DOMAIN rem |-> IF IsPickup(e) THEN rem[e] - 1 ELSE rem[e]]

hold(rem, item) == [rem EXCEPT ![item] = @ - 1]

\* The for loop of Inventory.step over self.items: the list iterator keeps an
\* index i into the list itself, so what it yields next is read from the list
\* as the loop body has left it.
RECURSIVE Inventory_step_loop(_, _, _)
Inventory_step_loop(its, rem, i) ==
    IF i >= Len(its) THEN [items |-> its, remaining_steps |-> rem]
    ELSE LET item == its[i + 1]
             held == hold(rem, item)
         IN  IF get_lifetime(held, item) <= 0
             THEN Inventory_step_loop(ListRemove(its, item), held, i + 1)
             ELSE Inventory_step_loop(its, held, i + 1)

\* Inventory.step that removes an item only once its lifetime is below zero
RECURSIVE Inventory_step_late_loop(_, _, _)
Inventory_step_late_loop(its, rem, i) ==
    IF i >= Len(its) THEN [items |-> its, remaining_steps |-> rem]
    ELSE LET item == its[i + 1]
             held == hold(rem, item)
         IN  IF get_lifetime(held, item) < 0
             THEN Inventory_step_late_loop(ListRemove(its, item), held, i + 1)
             ELSE Inventory_step_late_loop(its, held, i + 1)

Inventory_step_late(its, rem) == Inventory_step_late_loop(its, rem, 0)

Inventory_step(its, rem) == Inventory_step_loop(its, rem, 0)

add_item(its, item) == Append(its, item)

\* contains that compares the id with the class name
contains_name(its, pickup_id) == \E i \in 1..Len(its) : pickup_id = cls[its[i]]

contains(its, pickup_id) == \E i \in 1..Len(its) : pickup_id = display(cls[its[i]])

-----------------------------------------------------------------------------
(* Players *)

VulnerablePlayer_infect(inf) == TRUE

\* infect that clears the flag while garlic is held
HoldingPlayer_infect_cures(its, inf) ==
    IF contains(its, GARLIC) THEN FALSE ELSE VulnerablePlayer_infect(inf)

\* infect that does not look at the inventory
HoldingPlayer_infect_always(its, inf) == VulnerablePlayer_infect(inf)

HoldingPlayer_infect(its, inf) ==
    IF contains(its, GARLIC) THEN inf ELSE VulnerablePlayer_infect(inf)

\* player.infect() by the player's class.  A plain Player has no infect
\* method (the call raises); Init never puts it on a grid with zombies.
infect(player, its, inf) ==
    IF cls[player] = "HoldingPlayer" THEN HoldingPlayer_infect(its, inf)
    ELSE IF cls[player] = "VulnerablePlayer" THEN VulnerablePlayer_infect(inf)
    ELSE inf

is_infected(inf) == inf

-----------------------------------------------------------------------------
(* Zombies.  A step returns the grid it leaves and whether it called       *)
(* game.get_player().infect().                                             *)

RECURSIVE Zombie_step_loop(_, _, _, _)
Zombie_step_loop(g, position, rnd_directions, i) ==
    IF i > Len(rnd_directions) THEN [grid |-> g, infect |-> FALSE]
    ELSE LET final_position == add(position, rnd_directions[i])
         IN  IF in_bounds(g, final_position) = FALSE
             THEN Zombie_step_loop(g, position, rnd_directions, i + 1)
             ELSE IF get_entity(g, final_position) = None
             THEN [grid |-> move_entity(g, position, final_position), infect |-> FALSE]
             ELSE IF IsPlayer(get_entity(g, final_position))
             THEN [grid |-> g, infect |-> TRUE]
             ELSE Zombie_step_loop(g, position, rnd_directions, i + 1)

\* a loop that ends at the first destination holding another entity
RECURSIVE Zombie_step_loop_halts(_, _, _, _)
Zombie_step_loop_halts(g, position, rnd_directions, i) ==
    IF i > Len(rnd_directions) THEN [grid |-> g, infect |-> FALSE]
    ELSE LET final_position == add(position, rnd_directions[i])
         IN  IF in_bounds(g, final_position) = FALSE
             THEN Zombie_step_loop_halts(g, position, rnd_directions, i + 1)
             ELSE IF get_entity(g, final_position) = None
             THEN [grid |-> move_entity(g, position, final_position), infect |-> FALSE]
             ELSE IF IsPlayer(get_entity(g, final_position))
             THEN [grid |-> g, infect |-> TRUE]
             ELSE [grid |-> g, infect |-> FALSE]

\* a step that moves onto whatever is not the player
RECURSIVE Zombie_step_loop_overwrites(_, _, _, _)
Zombie_step_loop_overwrites(g, position, rnd_directions, i) ==
    IF i > Len(rnd_directions) THEN [grid |-> g, infect |-> FALSE]
    ELSE LET final_position == add(position, rnd_directions[i])
         IN  IF in_bounds(g, final_position) = FALSE
             THEN Zombie_step_loop_overwrites(g, position, rnd_directions, i + 1)
             ELSE IF IsPlayer(get_entity(g, final_position))
             THEN [grid |-> g, infect |-> TRUE]
             ELSE [grid |-> move_entity(g, position, final_position), infect |-> FALSE]

Zombie_step_overwrites(g, position, rnd_directions) ==
    Zombie_step_loop_overwrites(g, position, rnd_directions, 1)

Zombie_step_halts(g, position, rnd_directions) ==
    Zombie_step_loop_halts(g, position, rnd_directions, 1)

Zombie_step(g, position, rnd_directions) == Zombie_step_loop(g, position, rnd_directions, 1)

\* ord() of the direction letters, which Python's string comparison uses
ord(c) == CASE c = "E" -> 69 [] c = "N" -> 78 [] c = "S" -> 83 [] c = "W" -> 87

offsets_list    == <<Position(0, 1), Position(0, -1), Position(1, 0), Position(-1, 0)>>
directions_list == <<"S", "N", "E", "W">>

distances_list(position, player_position) ==
    [i \in 1..Len(offsets_list) |-> distance(player_position, add(offsets_list[i], position))]

\* a key that keeps the distance as it is
SortKey_distance(x) == <<x[2], ord(x[3])>>

\* the sort key lambda x: (-x[1], x[2]) and the order of its tuples
SortKey(x) == <<-x[2], ord(x[3])>>
KeyLess(a, b) == a[1] < b[1] \/ (a[1] = b[1] /\ a[2] < b[2])

\* sorted(l, key=SortKey): ascending by key, equal keys keep their order
sorted(l) ==
    LET before(i, j) == KeyLess(SortKey(l[i]), SortKey(l[j]))
                        \/ (~KeyLess(SortKey(l[j]), SortKey(l[i])) /\ i < j)
        place(i) == 1 + Cardinality({j \in 1..Len(l) : j # i /\ before(j, i)})
    IN  [k \in 1..Len(l) |-> l[CHOOSE i \in 1..Len(l) : place(i) = k]]

reverse(l) == [k \in 1..Len(l) |-> l[Len(l) + 1 - k]]

\* the sorted list without the call of reverse()
compressed_list_sorted(position, player_position) ==
    LET zipped == [i \in 1..Len(offsets_list) |->
                      <<offsets_list[i], distances_list(position, player_position)[i],
                        directions_list[i]>>]
    IN  sorted(zipped)

\* the list of [offset, distance, direction] TrackingZombie.step walks
compressed_list(position, player_position) ==
    LET zipped == [i \in 1..Len(offsets_list) |->
                      <<offsets_list[i], distances_list(position, player_position)[i],
                        directions_list[i]>>]
    IN  reverse(sorted(zipped))

RECURSIVE TrackingZombie_step_loop(_, _, _, _)
TrackingZombie_step_loop(g, position, compressed, i) ==
    IF i > Len(compressed) THEN [grid |-> g, infect |-> FALSE]
    ELSE LET final_position == add(position, compressed[i][1])
         IN  IF in_bounds(g, final_position) = FALSE
             THEN TrackingZombie_step_loop(g, position, compressed, i + 1)
             ELSE IF get_entity(g, final_position) = None
             THEN [grid |-> move_entity(g, position, final_position), infect |-> FALSE]
             ELSE IF IsPlayer(get_entity(g, final_position))
             THEN [grid |-> g, infect |-> TRUE]
             ELSE TrackingZombie_step_loop(g, position, compressed, i + 1)

\* a step that moves onto the player's cell instead of infecting
RECURSIVE TrackingZombie_step_loop_tramples(_, _, _, _)
TrackingZombie_step_loop_tramples(g, position, compressed, i) ==
    IF i > Len(compressed) THEN [grid |-> g, infect |-> FALSE]
    ELSE LET final_position == add(position, compressed[i][1])
         IN  IF in_bounds(g, final_position) = FALSE
             THEN TrackingZombie_step_loop_tramples(g, position, compressed, i + 1)
             ELSE IF get_entity(g, final_position) = None
                     \/ IsPlayer(get_entity(g, final_position))
             THEN [grid |-> move_entity(g, position, final_position), infect |-> FALSE]
             ELSE TrackingZombie_step_loop_tramples(g, position, compressed, i + 1)

TrackingZombie_step_tramples(g, position) ==
    TrackingZombie_step_loop_tramples(g, position,
                                      compressed_list(position, find_player(g)), 1)

\* a step that ends at the first destination that holds an entity
RECURSIVE TrackingZombie_step_loop_halts(_, _, _, _)
TrackingZombie_step_loop_halts(g, position, compressed, i) ==
    IF i > Len(compressed) THEN [grid |-> g, infect |-> FALSE]
    ELSE LET final_position == add(position, compressed[i][1])
         IN  IF in_bounds(g, final_position) = FALSE
             THEN TrackingZombie_step_loop_halts(g, position, compressed, i + 1)
             ELSE IF get_entity(g, final_position) = None
             THEN [grid |-> move_entity(g, position, final_position), infect |-> FALSE]
             ELSE IF IsPlayer(get_entity(g, final_position))
             THEN [grid |-> g, infect |-> TRUE]
             ELSE [grid |-> g, infect |-> FALSE]

TrackingZombie_step_halts(g, position) ==
    TrackingZombie_step_loop_halts(g, position,
                                   compressed_list(position, find_player(g)), 1)

TrackingZombie_step(g, position) ==
    TrackingZombie_step_loop(g, position, compressed_list(position, find_player(g)), 1)

-----------------------------------------------------------------------------
(* Game *)

get_player(g) ==
    LET player_position == find_player(g)
    IN  IF player_position # NoPosition THEN get_entity(g, player_position) ELSE None

direction_to_offset(direction) ==
    IF direction = UP THEN Position(0, -1)
    ELSE IF direction = DOWN THEN Position(0, 1)
    ELSE IF direction = LEFT THEN Position(-1, 0)
    ELSE IF direction = RIGHT THEN Position(1, 0)
    ELSE NoPosition

\* move_player that stays put when the destination is occupied
Game_move_player_blocked(g, offset) ==
    LET start_position == find_player(g)
        end_position   == add(start_position, offset)
    IN  IF get_entity(g, end_position) # None THEN g
        ELSE move_entity(g, start_position, end_position)

Game_move_player(g, offset) ==
    LET start_position == find_player(g)
        end_position   == add(start_position, offset)
    IN  move_entity(g, start_position, end_position)

\* move_player that looks at the destination after the move
AdvancedGame_move_player_late(g, its, offset) ==
    LET start_position == find_player(g)
        end_position   == add(start_position, offset)
        moved          == move_entity(g, start_position, end_position)
        entity_endpos  == get_entity(moved, end_position)
    IN  [grid  |-> moved,
         items |-> IF IsPickup(entity_endpos) THEN add_item(its, entity_endpos) ELSE its]

\* returns the grid and the inventory items it leaves
AdvancedGame_move_player(g, its, offset) ==
    LET start_position == find_player(g)
        end_position   == add(start_position, offset)
        entity_endpos  == get_entity(g, end_position)
    IN  [grid  |-> move_entity(g, start_position, end_position),
         items |-> IF IsPickup(entity_endpos) THEN add_item(its, entity_endpos) ELSE its]

move_player(game, g, its, offset) ==
    IF game = "AdvancedGame" THEN AdvancedGame_move_player(g, its, offset)
    ELSE [grid |-> Game_move_player(g, offset), items |-> its]

\* Game.step: the step counter, and the items its loop iterates over: those
\* of the dictionary get_mapping() returned, whatever the grid has become
step_count(n) == n + 1

\* a loop over the grid's own dictionary instead of the get_mapping() copy
step_items_live(g, mapping) == g.EntityLocations

step_items(g, mapping) == mapping

\* has_won that returns from the first iteration of its loop
has_won_first(g) == Len(g.entities) = 0 \/ repr(g.entities[1]) # "Hospital()"

has_won(g) == ~\E i \in 1..Len(g.entities) : repr(g.entities[i]) = "Hospital()"

Game_has_lost == FALSE

\* has_lost left as Game defines it
IntermediateGame_has_lost_base(inf) == FALSE

IntermediateGame_has_lost(inf) == is_infected(inf)

has_lost(game, inf) ==
    IF game = "Game" THEN Game_has_lost ELSE IntermediateGame_has_lost(inf)

-----------------------------------------------------------------------------
(* Text interfaces.  handle_action up to its call of game.step(): returns   *)
(* the grid, the inventory items and the messages it leaves, and whether   *)
(* the branch taken calls game.step().                                     *)

\* the while loop of the fire action, from current_position
RECURSIVE fire_loop(_, _, _, _)
fire_loop(g, current_position, fire_direction, n) ==
    LET offset == direction_to_offset(fire_direction)
        next_position == add(current_position, offset)
    IN  IF in_bounds(g, next_position) = FALSE
        THEN [grid |-> g, printed |-> <<NO_ZOMBIE_MESSAGE>>, iterations |-> n]
        ELSE LET entity == get_entity(g, next_position)
             IN  IF IsZombie(entity)
                 THEN [grid |-> remove_entity(g, next_position), printed |-> <<>>,
                       iterations |-> n]
                 ELSE IF entity # None
                 THEN [grid |-> g, printed |-> <<NO_ZOMBIE_MESSAGE>>, iterations |-> n]
                 ELSE fire_loop(g, next_position, fire_direction, n + 1)

\* a fire action that walks on past the first entity that is no zombie
RECURSIVE fire_loop_through(_, _, _, _)
fire_loop_through(g, current_position, fire_direction, n) ==
    LET offset == direction_to_offset(fire_direction)
        next_position == add(current_position, offset)
    IN  IF in_bounds(g, next_position) = FALSE
        THEN [grid |-> g, printed |-> <<NO_ZOMBIE_MESSAGE>>, iterations |-> n]
        ELSE IF IsZombie(get_entity(g, next_position))
        THEN [grid |-> remove_entity(g, next_position), printed |-> <<>>,
              iterations |-> n]
        ELSE fire_loop_through(g, next_position, fire_direction, n + 1)

fire_through(g, its, fire_direction) ==
    LET fired == fire_loop_through(g, find_player(g), fire_direction, 1)
    IN  [grid |-> fired.grid, items |-> its, printed |-> fired.printed, step |-> TRUE]

\* a fire action that removes the first entity it meets, whatever it is
RECURSIVE fire_loop_any(_, _, _, _)
fire_loop_any(g, current_position, fire_direction, n) ==
    LET offset == direction_to_offset(fire_direction)
        next_position == add(current_position, offset)
    IN  IF in_bounds(g, next_position) = FALSE
        THEN [grid |-> g, printed |-> <<NO_ZOMBIE_MESSAGE>>, iterations |-> n]
        ELSE IF get_entity(g, next_position) # None
        THEN [grid |-> remove_entity(g, next_position), printed |-> <<>>,
              iterations |-> n]
        ELSE fire_loop_any(g, next_position, fire_direction, n + 1)

fire_any(g, its, fire_direction) ==
    LET fired == fire_loop_any(g, find_player(g), fire_direction, 1)
    IN  [grid |-> fired.grid, items |-> its, printed |-> fired.printed, step |-> TRUE]

\* the valid-direction branch of the fire action
fire(g, its, fire_direction) ==
    LET fired == fire_loop(g, find_player(g), fire_direction, 1)
    IN  [grid |-> fired.grid, items |-> its, printed |-> fired.printed, step |-> TRUE]

\* handle_action whose game.step() gets the grid as it was before the move
TextInterface_handle_action_unmoved(game, g, its, action) ==
    [grid |-> g, items |-> its, printed |-> <<>>, step |-> TRUE]

\* handle_action that returns on an action that is no direction
TextInterface_handle_action_returns(game, g, its, action) ==
    LET offset_position == direction_to_offset(action)
    IN  IF offset_position # NoPosition
        THEN LET moved == move_player(game, g, its, offset_position)
             IN  [grid |-> moved.grid, items |-> moved.items, printed |-> <<>>,
                  step |-> TRUE]
        ELSE [grid |-> g, items |-> its, printed |-> <<>>, step |-> FALSE]

TextInterface_handle_action(game, g, its, action) ==
    LET offset_position == direction_to_offset(action)
    IN  IF offset_position # NoPosition
        THEN LET moved == move_player(game, g, its, offset_position)
             IN  [grid |-> moved.grid, items |-> moved.items, printed |-> <<>>,
                  step |-> TRUE]
        ELSE [grid |-> g, items |-> its, printed |-> <<>>, step |-> TRUE]

\* handle_action whose no-weapon branch returns without game.step()
AdvancedTextInterface_handle_action_nostep(game, g, its, action, fire_direction) ==
    IF action = FIRE
    THEN IF contains(its, CROSSBOW)
         THEN IF fire_direction \notin DIRECTIONS
              THEN [grid |-> g, items |-> its, printed |-> <<INVALID_FIRING_MESSAGE>>,
                    step |-> TRUE]
              ELSE fire(g, its, fire_direction)
         ELSE [grid |-> g, items |-> its, printed |-> <<NO_WEAPON_MESSAGE>>,
               step |-> FALSE]
    ELSE TextInterface_handle_action(game, g, its, action)

AdvancedTextInterface_handle_action(game, g, its, action, fire_direction) ==
    IF action = FIRE
    THEN IF contains(its, CROSSBOW)
         THEN IF fire_direction \notin DIRECTIONS
              THEN [grid |-> g, items |-> its, printed |-> <<INVALID_FIRING_MESSAGE>>,
                    step |-> TRUE]
              ELSE fire(g, its, fire_direction)
         ELSE [grid |-> g, items |-> its, printed |-> <<NO_WEAPON_MESSAGE>>,
               step |-> TRUE]
    ELSE TextInterface_handle_action(game, g, its, action)

handle_action(interface, game, g, its, action, fire_direction) ==
    IF interface = "AdvancedTextInterface"
    THEN AdvancedTextInterface_handle_action(game, g, its, action, fire_direction)
    ELSE TextInterface_handle_action(game, g, its, action)

\* input(FIRE_PROMPT) ahead of the test of the inventory
asks_direction_first(interface, its, action) ==
    interface = "AdvancedTextInterface" /\ action = FIRE

\* input(FIRE_PROMPT) is reached
asks_direction(interface, its, action) ==
    interface = "AdvancedTextInterface" /\ action = FIRE /\ contains(its, CROSSBOW)

-----------------------------------------------------------------------------
(* Map loaders *)

BasicMapLoader_create_entity(token) ==
    IF token \notin {PLAYER, HOSPITAL} THEN "ValueError"
    ELSE IF token = PLAYER THEN "Player"
    ELSE "Hospital"

IntermediateMapLoader_create_entity(token) ==
    IF token \notin {PLAYER, ZOMBIE} THEN BasicMapLoader_create_entity(token)
    ELSE IF token = PLAYER THEN "VulnerablePlayer"
    ELSE "Zombie"

AdvancedMapLoader_create_entity(token) ==
    IF token \notin {PLAYER, TRACKING_ZOMBIE, GARLIC, CROSSBOW}
    THEN IntermediateMapLoader_create_entity(token)
    ELSE IF token = PLAYER THEN "HoldingPlayer"
    ELSE IF token = TRACKING_ZOMBIE THEN "TrackingZombie"
    ELSE IF token = GARLIC THEN "Garlic"
    ELSE "Crossbow"

create_entity(loader, token) ==
    IF loader = "AdvancedMapLoader" THEN AdvancedMapLoader_create_entity(token)
    ELSE IF loader = "IntermediateMapLoader" THEN IntermediateMapLoader_create_entity(token)
    ELSE BasicMapLoader_create_entity(token)

\* MapLoader.load: the i-th item of the loaded map becomes entity object i
RECURSIVE load_loop(_, _, _)
load_loop(g, cells, i) ==
    IF i > Len(cells) THEN g
    ELSE load_loop(add_entity(g, cells[i][1], i), cells, i + 1)

load(m) == load_loop(Grid(m.size), m.cells, 1)

-----------------------------------------------------------------------------
(* Initial states: a map file loaded by a loader, and the game and         *)
(* interface objects built on the grid.                                    *)

BasicSetup        == [loader |-> "BasicMapLoader", game |-> "Game",
                      interface |-> "TextInterface"]
IntermediateSetup == [loader |-> "IntermediateMapLoader", game |-> "IntermediateGame",
                      interface |-> "TextInterface"]
NoLossSetup       == [loader |-> "IntermediateMapLoader", game |-> "Game",
                      interface |-> "TextInterface"]
AdvancedSetup     == [loader |-> "AdvancedMapLoader", game |-> "AdvancedGame",
                      interface |-> "AdvancedTextInterface"]

Map(size, cells, setup) == [size |-> size, cells |-> cells, setup |-> setup]

MapFiles == <<
    Map(3, << <<Position(0, 0), PLAYER>>, <<Position(2, 2), HOSPITAL>> >>, BasicSetup),
    Map(3, << <<Position(0, 0), PLAYER>>, <<Position(2, 1), ZOMBIE>> >>, NoLossSetup),
    Map(2, << <<Position(0, 0), PLAYER>>, <<Position(1, 0), HOSPITAL>>,
              <<Position(1, 1), ZOMBIE>> >>, IntermediateSetup),
    Map(2, << <<Position(0, 0), PLAYER>>, <<Position(1, 0), CROSSBOW>>,
              <<Position(0, 1), GARLIC>>, <<Position(1, 1), HOSPITAL>> >>, AdvancedSetup),
    Map(2, << <<Position(1, 0), GARLIC>>, <<Position(0, 0), PLAYER>>,
              <<Position(1, 1), TRACKING_ZOMBIE>> >>, AdvancedSetup),
    Map(3, << <<Position(0, 0), PLAYER>>, <<Position(1, 0), CROSSBOW>>,
              <<Position(2, 2), TRACKING_ZOMBIE>>, <<Position(0, 2), HOSPITAL>> >>,
        AdvancedSetup)
>>

Maps == Range(MapFiles)

NoAction == [action |-> "", fire_direction |-> ""]
NoPre    == <<>>

InitFrom(m) ==
    /\ grid = load(m)
    /\ cls = [i \in 1..Len(m.cells) |-> create_entity(m.setup.loader, m.cells[i][2])]
    /\ remaining_steps = [i \in 1..Len(m.cells) |->
                             Pickup_init(create_entity(m.setup.loader, m.cells[i][2]))]
    /\ infected = FALSE
    /\ items = <<>>
    /\ no_steps = 0
    /\ gameClass = m.setup.game
    /\ interfaceClass = m.setup.interface
    /\ pc = "input"
    /\ snapshot = <<>>
    /\ idx = 1
    /\ invoked = <<>>
    /\ infectLog = <<>>
    /\ sweepStart = <<>>
    /\ heldSweeps = [i \in 1..Len(m.cells) |-> 0]
    /\ printed = <<>>
    /\ outcome = "none"
    /\ lastAction = NoAction
    /\ pre = NoPre

Init == \E m \in Maps : InitFrom(m)

-----------------------------------------------------------------------------
(* Actions *)

ActionInputs         == DIRECTIONS \cup {FIRE, "X"}
FireInputs == DIRECTIONS \cup {"X"}

\* handle_action(game, action) up to the start of the loop of Game.step:
\* the player's move or the fire action, then no_steps += 1 and the snapshot.
\* (Without a player on the grid the call raises.)
Handle(limit) ==
    /\ pc = "input"
    /\ no_steps < limit
    /\ find_player(grid) # NoPosition
    /\ \E action \in ActionInputs :
       \E fire_direction \in IF asks_direction(interfaceClass, items, action)
                             THEN FireInputs ELSE {""} :
          LET handled == handle_action(interfaceClass, gameClass, grid, items,
                                       action, fire_direction)
          IN  /\ grid' = handled.grid
              /\ items' = handled.items
              /\ printed' = handled.printed
              /\ no_steps' = IF handled.step THEN step_count(no_steps) ELSE no_steps
              /\ snapshot' = IF handled.step THEN get_mapping(handled.grid) ELSE <<>>
              /\ idx' = 1
              /\ pc' = "sweep"
              /\ invoked' = <<>>
              /\ infectLog' = <<>>
              /\ sweepStart' = get_entities(handled.grid)
              /\ heldSweeps' = [e \in DOMAIN heldSweeps |->
                                   IF e \notin Range(handled.items) THEN 0
                                   ELSE IF handled.step THEN heldSweeps[e] + 1
                                   ELSE heldSweeps[e]]
              /\ lastAction' = [action |-> action, fire_direction |-> fire_direction]
              /\ pre' = [grid |-> grid, items |-> items, infected |-> infected,
                         remaining_steps |-> remaining_steps, no_steps |-> no_steps]
    /\ UNCHANGED <<cls, remaining_steps, infected, gameClass, interfaceClass, outcome>>

HandleAction == Handle(MaxSteps)

\* the entity and position the loop of Game.step is at
InSweep == pc = "sweep" /\ idx <= Len(step_items(grid, snapshot))
key   == step_items(grid, snapshot)[idx].key
value == step_items(grid, snapshot)[idx].value

Advance ==
    /\ idx' = idx + 1
    /\ invoked' = Append(invoked, value)
    /\ UNCHANGED <<cls, no_steps, gameClass, interfaceClass, pc, snapshot, sweepStart,
                   printed, outcome, lastAction, pre>>

\* value.step(key, self) for a Zombie
StepZombie ==
    /\ InSweep
    /\ cls[value] = "Zombie"
    /\ \E rnd_directions \in random_directions :
          LET stepped == Zombie_step(grid, key, rnd_directions)
          IN  /\ grid' = stepped.grid
              /\ infected' = IF stepped.infect
                             THEN infect(get_player(grid), items, infected)
                             ELSE infected
              /\ infectLog' = IF stepped.infect THEN Append(infectLog, value)
                              ELSE infectLog
    /\ Advance
    /\ UNCHANGED <<items, remaining_steps, heldSweeps>>

\* value.step(key, self) for a TrackingZombie
StepTrackingZombie ==
    /\ InSweep
    /\ cls[value] = "TrackingZombie"
    /\ LET stepped == TrackingZombie_step(grid, key)
       IN  /\ grid' = stepped.grid
           /\ infected' = IF stepped.infect
                          THEN infect(get_player(grid), items, infected)
                          ELSE infected
           /\ infectLog' = IF stepped.infect THEN Append(infectLog, value)
                           ELSE infectLog
    /\ Advance
    /\ UNCHANGED <<items, remaining_steps, heldSweeps>>

\* value.step(key, self) for a HoldingPlayer: self.inventory.step()
StepHoldingPlayer ==
    /\ InSweep
    /\ cls[value] = "HoldingPlayer"
    /\ LET aged == Inventory_step(items, remaining_steps)
       IN  /\ items' = aged.items
           /\ remaining_steps' = aged.remaining_steps
           /\ heldSweeps' = [e \in DOMAIN heldSweeps |->
                                IF e \in Range(aged.items) THEN heldSweeps[e] ELSE 0]
    /\ Advance
    /\ UNCHANGED <<grid, infected, infectLog>>

\* value.step(key, self) for the classes that inherit Entity.step
StepEntity ==
    /\ InSweep
    /\ cls[value] \in {"Player", "VulnerablePlayer", "Hospital", "Garlic", "Crossbow"}
    /\ Advance
    /\ UNCHANGED <<grid, infected, infectLog, items, remaining_steps, heldSweeps>>

\* a return after which play() tests has_lost before has_won
Return_loss_first ==
    /\ pc = "sweep"
    /\ ~InSweep
    /\ pc' = "input"
    /\ outcome' = IF outcome # "none" THEN outcome
                  ELSE IF has_lost(gameClass, infected) = TRUE THEN LOSE_MESSAGE
                  ELSE IF has_won(grid) = TRUE THEN WIN_MESSAGE
                  ELSE "none"
    /\ snapshot' = <<>>
    /\ idx' = 1
    /\ invoked' = <<>>
    /\ infectLog' = <<>>
    /\ sweepStart' = <<>>
    /\ printed' = <<>>
    /\ lastAction' = NoAction
    /\ pre' = NoPre
    /\ UNCHANGED <<grid, cls, remaining_steps, infected, items, no_steps, gameClass,
                   interfaceClass, heldSweeps>>

\* Game.step and handle_action return; play() tests has_won, then has_lost
\* and ends its loop on the first that holds
Return ==
    /\ pc = "sweep"
    /\ ~InSweep
    /\ pc' = "input"
    /\ outcome' = IF outcome # "none" THEN outcome
                  ELSE IF has_won(grid) = TRUE THEN WIN_MESSAGE
                  ELSE IF has_lost(gameClass, infected) = TRUE THEN LOSE_MESSAGE
                  ELSE "none"
    /\ snapshot' = <<>>
    /\ idx' = 1
    /\ invoked' = <<>>
    /\ infectLog' = <<>>
    /\ sweepStart' = <<>>
    /\ printed' = <<>>
    /\ lastAction' = NoAction
    /\ pre' = NoPre
    /\ UNCHANGED <<grid, cls, remaining_steps, infected, items, no_steps, gameClass,
                   interfaceClass, heldSweeps>>

Next ==
    \/ HandleAction
    \/ StepZombie
    \/ StepTrackingZombie
    \/ StepHoldingPlayer
    \/ StepEntity
    \/ Return

Spec == Init /\ [][Next]_vars

-----------------------------------------------------------------------------
(* SpecGrid: a harness that builds a Grid holding a HoldingPlayer and an    *)
(* AdvancedGame on it, and between handle_action calls also calls the       *)
(* Grid's mutators directly, at any position in or next to the grid.        *)

HarnessMap == Map(2, << <<Position(0, 0), PLAYER>> >>, AdvancedSetup)

InitGrid == InitFrom(HarnessMap)

\* the cells of the grid and two positions out of its bounds
Positions == {Position(x, y) : x \in 0..(grid.size - 1), y \in 0..(grid.size - 1)}
             \cup {Position(-1, 0), Position(0, grid.size)}

FreshClasses == {"Hospital", "Zombie"}

GridFrame == UNCHANGED <<infected, items, no_steps, gameClass, interfaceClass, pc,
                         snapshot, idx, invoked, infectLog, sweepStart, printed, outcome,
                         lastAction, pre>>

\* grid.add_entity(position, c()) with a newly constructed entity
GridAdd ==
    /\ pc = "input"
    /\ Len(cls) < MaxObjects
    /\ \E position \in Positions, c \in FreshClasses :
          /\ grid' = add_entity(grid, position, Len(cls) + 1)
          /\ cls' = Append(cls, c)
          /\ remaining_steps' = Append(remaining_steps, Pickup_init(c))
          /\ heldSweeps' = Append(heldSweeps, 0)
    /\ GridFrame

\* grid.remove_entity(position)
GridRemove ==
    /\ pc = "input"
    /\ \E position \in Positions : grid' = remove_entity(grid, position)
    /\ UNCHANGED <<cls, remaining_steps, heldSweeps>>
    /\ GridFrame

\* grid.move_entity(start, end)
GridMove ==
    /\ pc = "input"
    /\ \E start, end \in Positions : grid' = move_entity(grid, start, end)
    /\ UNCHANGED <<cls, remaining_steps, heldSweeps>>
    /\ GridFrame

HarnessAction == Handle(MaxGridSteps)

NextGrid ==
    \/ GridAdd
    \/ GridRemove
    \/ GridMove
    \/ HarnessAction
    \/ StepZombie
    \/ StepHoldingPlayer
    \/ StepEntity
    \/ Return

SpecGrid == InitGrid /\ [][NextGrid]_vars

-----------------------------------------------------------------------------
(* SpecTrack: an AdvancedGame on a grid holding a HoldingPlayer and a      *)
(* TrackingZombie, on any two cells, played for MaxTrackSteps turns.       *)

Cells(size) == {Position(x, y) : x \in 0..(size - 1), y \in 0..(size - 1)}

TrackMap(player_position, position) ==
    Map(TrackSize, << <<player_position, PLAYER>>, <<position, TRACKING_ZOMBIE>> >>,
        AdvancedSetup)

InitTrack ==
    \E player_position \in Cells(TrackSize) :
       \E position \in Cells(TrackSize) \ {player_position} :
          InitFrom(TrackMap(player_position, position))

TrackAction == Handle(MaxTrackSteps)

NextTrack ==
    \/ TrackAction
    \/ StepTrackingZombie
    \/ StepHoldingPlayer
    \/ Return

SpecTrack == InitTrack /\ [][NextTrack]_vars

-----------------------------------------------------------------------------
(* SpecWander: an IntermediateGame on every 2 x 2 map with one player and   *)
(* at least one Zombie, played for MaxWanderSteps turns.                    *)

WanderCells == <<Position(0, 0), Position(1, 0), Position(0, 1), Position(1, 1)>>

WanderMap(tokens) ==
    Map(2, SelectSeq([k \in 1..4 |-> <<WanderCells[k], tokens[k]>>],
                     LAMBDA c : c[2] # ""),
        IntermediateSetup)

InitWander ==
    \E tokens \in [1..4 -> {"", PLAYER, ZOMBIE, HOSPITAL}] :
       /\ Cardinality({k \in 1..4 : tokens[k] = PLAYER}) = 1
       /\ \E k \in 1..4 : tokens[k] = ZOMBIE
       /\ InitFrom(WanderMap(tokens))

WanderAction == Handle(MaxWanderSteps)

NextWander ==
    \/ WanderAction
    \/ StepZombie
    \/ StepEntity
    \/ Return

SpecWander == InitWander /\ [][NextWander]_vars

-----------------------------------------------------------------------------
(* SpecFire: an AdvancedGame on 3 x 3 maps with a Crossbow next to the      *)
(* player and zombies and Hospitals in the column below the Crossbow,       *)
(* played for MaxFireSteps turns.                                           *)

FireMap(below, bottom, corner) ==
    Map(3, SelectSeq(<< <<Position(0, 0), PLAYER>>, <<Position(1, 0), CROSSBOW>>,
                        <<Position(1, 1), below>>, <<Position(0, 2), HOSPITAL>>,
                        <<Position(1, 2), bottom>>, <<Position(2, 2), corner>> >>,
                     LAMBDA c : c[2] # ""),
        AdvancedSetup)

InitFire ==
    \E below, bottom \in {"", ZOMBIE, TRACKING_ZOMBIE, HOSPITAL} :
       \E corner \in {HOSPITAL, TRACKING_ZOMBIE} :
          InitFrom(FireMap(below, bottom, corner))

FireAction == Handle(MaxFireSteps)

NextFire ==
    \/ FireAction
    \/ StepZombie
    \/ StepTrackingZombie
    \/ StepHoldingPlayer
    \/ StepEntity
    \/ Return

SpecFire == InitFire /\ [][NextFire]_vars

-----------------------------------------------------------------------------
(* Properties *)

values(g) == [i \in 1..Len(g.EntityLocations) |-> g.EntityLocations[i].value]
tags(g)   == {serialize(g)[i].value : i \in 1..Len(serialize(g))}
SweepDone == pc = "sweep" /\ ~InSweep
Pickups   == {e \in DOMAIN cls : IsPickup(e)}

\* C1: whatever add_entity (of fresh entities), remove_entity, move_entity,
\* player actions and step sweeps have been applied, the entities in the
\* position map are exactly those in the entity list, each held once in each.
C1_MapMatchesList ==
    /\ Range(values(grid)) = Range(grid.entities)
    /\ \A e \in Range(grid.entities) :
          Count(values(grid), e) = 1 /\ Count(grid.entities, e) = 1

\* an occupant was evicted, and a whole turn has been played
C1_Witness ==
    /\ pc = "input"
    /\ no_steps = 1
    /\ Len(cls) = 2
    /\ Len(grid.entities) = 1

\* C2: in a step sweep no entity's behaviour runs twice, and when the sweep
\* ends the entities whose behaviour ran are exactly those that were on the
\* grid when it began.
C2_EachEntityOnce ==
    /\ \A e \in Range(invoked) : Count(invoked, e) = 1
    /\ SweepDone => Range(invoked) = Range(sweepStart)

\* a sweep has ended in which a zombie left the cell it started on
C2_Witness ==
    /\ SweepDone
    /\ Len(invoked) >= 3
    /\ \E i \in 1..Len(snapshot) :
          /\ IsZombie(snapshot[i].value)
          /\ get_entity(grid, snapshot[i].key) # snapshot[i].value

SteppedOn ==
    IF pc = "sweep" /\ find_player(grid) # find_player(pre.grid)
       /\ get_entity(pre.grid, find_player(grid)) # None
       /\ cls[get_entity(pre.grid, find_player(grid))] = "Hospital"
    THEN get_entity(pre.grid, find_player(grid))
    ELSE None

\* C4: has_won() holds exactly when the grid's serialization shows no
\* Hospital; when the player has walked onto a Hospital's cell that Hospital
\* is on the grid no more, and if it was the only one has_won() holds.
C4_HasWon ==
    /\ has_won(grid) <=> HOSPITAL \notin tags(grid)
    /\ SteppedOn # None =>
          /\ SteppedOn \notin Range(values(grid))
          /\ (\A e \in Range(values(pre.grid)) : cls[e] = "Hospital" => e = SteppedOn)
                => has_won(grid) /\ HOSPITAL \notin tags(grid)

\* the player has walked onto the Hospital and has_won() holds
C4_Witness == SteppedOn # None /\ has_won(grid) /\ ~has_won(pre.grid)

\* C5: has_lost() of a Game is false, and has_lost() of an IntermediateGame
\* or AdvancedGame is the player's infected flag.
C5_HasLost ==
    /\ gameClass = "Game" => has_lost(gameClass, infected) = FALSE
    /\ gameClass \in {"IntermediateGame", "AdvancedGame"} =>
          has_lost(gameClass, infected) = infected

\* a Game whose player is infected, between turns
C5_Witness == gameClass = "Game" /\ infected = TRUE /\ pc = "input"

\* C6: once the infected flag is set no step clears it.
C6_InfectionStays == [][infected => infected']_vars

\* an infected player holds garlic and a zombie has called infect() again
C6_Witness == infected /\ contains(items, GARLIC) /\ Len(infectLog) > 0

\* C7: infect() leaves the infected flag as it is when the inventory holds a
\* Garlic, and sets it otherwise.
C7_GarlicProtects ==
    [][Len(infectLog') > Len(infectLog) =>
          infected' = IF \E i \in 1..Len(items) : cls[items[i]] = "Garlic"
                      THEN infected ELSE TRUE]_vars

\* a zombie has called infect() on a healthy player holding garlic
C7_Witness ==
    /\ ~infected
    /\ Len(infectLog) > 0
    /\ \E i \in 1..Len(items) : cls[items[i]] = "Garlic"

\* C8: the HoldingPlayer's step takes one from the lifetime of every held
\* item and removes exactly the items whose lifetime thereby reaches zero.
C8_InventoryStepAgesAll ==
    [][(InSweep /\ cls[value] = "HoldingPlayer" /\ idx' = idx + 1) =>
          /\ \A e \in Range(items) : remaining_steps'[e] = remaining_steps[e] - 1
          /\ items' = SelectSeq(items, LAMBDA e : remaining_steps[e] - 1 > 0)]_vars

\* C9: every item in the inventory has a remaining lifetime above zero.
C9_HeldItemsAlive == \A e \in Range(items) : remaining_steps[e] > 0

\* an item has expired and left the inventory while another is still held
C9_Witness ==
    /\ pc = "input"
    /\ Len(items) > 0
    /\ \E e \in Pickups : remaining_steps[e] <= 0 /\ e \notin Range(items)

\* C10: between turns no item is in the inventory once as many sweeps as its
\* durability have begun since it was picked up.
C10_HeldAtMostDurability ==
    pc = "input" => \A e \in Range(items) : heldSweeps[e] < get_durability(e)

\* the compass letter of a unit offset and its place in the tie order
\* West, South, North, East
Compass(offset) ==
    CASE offset = Position(-1, 0) -> "W" [] offset = Position(0, 1) -> "S"
      [] offset = Position(0, -1) -> "N" [] offset = Position(1, 0) -> "E"
TieRank(offset) ==
    CASE Compass(offset) = "W" -> 1 [] Compass(offset) = "S" -> 2
      [] Compass(offset) = "N" -> 3 [] Compass(offset) = "E" -> 4

\* the four unit offsets by ascending distance of the destination to the
\* player, equal distances by West, South, North, East
PursuitOrder(position, player_position) ==
    LET d(o) == distance(add(position, o), player_position)
        ahead(a, b) == \/ d(a) < d(b)
                       \/ d(a) = d(b) /\ TieRank(a) < TieRank(b)
        pick(k) == CHOOSE o \in OFFSETS : Cardinality({a \in OFFSETS : ahead(a, o)}) = k - 1
    IN  <<pick(1), pick(2), pick(3), pick(4)>>

\* the first offset of an order whose destination is in the grid (None: none)
FirstInBounds(g, position, order) ==
    IF \E i \in 1..Len(order) : in_bounds(g, add(position, order[i]))
    THEN order[CHOOSE i \in 1..Len(order) :
                  /\ in_bounds(g, add(position, order[i]))
                  /\ \A j \in 1..(i - 1) : ~in_bounds(g, add(position, order[j]))]
    ELSE None

NeighboursEmpty(g, position) ==
    \A o \in OFFSETS : in_bounds(g, add(position, o)) => get_entity(g, add(position, o)) = None

\* C11: when a TrackingZombie steps, the offsets it tries are the four unit
\* offsets by ascending distance of the destination to the player, ties in
\* the order West, South, North, East; from (1,1) with the player at (2,4)
\* that is S, E, W, N; and with all neighbours empty the zombie moves to the
\* first destination of that order that is in the grid, (1,2) in the example.
C11_PursuitOrder ==
    [][(InSweep /\ cls[value] = "TrackingZombie" /\ idx' = idx + 1) =>
          LET player_position == find_player(grid)
              compressed == compressed_list(key, player_position)
              tried == <<compressed[1][1], compressed[2][1], compressed[3][1],
                         compressed[4][1]>>
              order == PursuitOrder(key, player_position)
          IN  /\ tried = order
              /\ (key = Position(1, 1) /\ player_position = Position(2, 4)) =>
                     [i \in 1..4 |-> Compass(tried[i])] = <<"S", "E", "W", "N">>
              /\ NeighboursEmpty(grid, key) =>
                     /\ get_entity(grid', add(key, FirstInBounds(grid, key, order))) = value
                     /\ get_entity(grid', key) = None
              /\ (key = Position(1, 1) /\ player_position = Position(2, 4)
                   /\ NeighboursEmpty(grid, key)) =>
                     get_entity(grid', Position(1, 2)) = value]_vars

\* the zombie of the example has stepped from (1,1) to (1,2), the player at (2,4)
C11_Witness ==
    /\ SweepDone
    /\ grid.size >= 5
    /\ find_player(grid) = Position(2, 4)
    /\ \E i \in 1..Len(snapshot) :
          /\ cls[snapshot[i].value] = "TrackingZombie"
          /\ snapshot[i].key = Position(1, 1)
          /\ get_entity(grid, Position(1, 2)) = snapshot[i].value

\* a destination a zombie acts on: in the grid, and empty or the player's
Qualifies(g, final_position) ==
    /\ in_bounds(g, final_position)
    /\ \/ get_entity(g, final_position) = None
       \/ IsPlayer(get_entity(g, final_position))

\* g2 is g with the entity of cell start on the empty cell end instead
Relocated(g, g2, start, end) ==
    /\ get_entity(g2, end) = get_entity(g, start)
    /\ get_entity(g2, start) = None
    /\ \A p \in Cells(g.size) \ {start, end} : get_entity(g2, p) = get_entity(g, p)
    /\ Range(g2.entities) = Range(g.entities)

\* stepped is the effect the first qualifying destination of order has on g
WanderEffect(g, position, order, stepped) ==
    IF \E i \in 1..4 : Qualifies(g, add(position, order[i]))
    THEN LET first == CHOOSE i \in 1..4 :
                         /\ Qualifies(g, add(position, order[i]))
                         /\ \A j \in 1..(i - 1) : ~Qualifies(g, add(position, order[j]))
             final_position == add(position, order[first])
         IN  IF get_entity(g, final_position) = None
             THEN Relocated(g, stepped.grid, position, final_position) /\ ~stepped.infect
             ELSE stepped.grid = g /\ stepped.infect
    ELSE stepped.grid = g /\ ~stepped.infect

\* C12: for every order of the four unit offsets, a Zombie's step does what
\* the first offset of that order does whose destination is in the grid and
\* is empty (the zombie moves there) or holds the player (infect() is called,
\* the zombie stays); destinations out of the grid or holding anything else
\* are passed over, and with no such offset the zombie stays; the step the
\* game takes is that of one of the orders.
C12_WanderStep ==
    [][(InSweep /\ cls[value] = "Zombie" /\ idx' = idx + 1) =>
          /\ \A order \in random_directions :
                LET stepped == Zombie_step(grid, key, order)
                IN  WanderEffect(grid, key, order,
                                 [grid |-> stepped.grid, infect |-> stepped.infect])
          /\ \E order \in random_directions :
                WanderEffect(grid, key, order,
                             [grid |-> grid', infect |-> Len(infectLog') > Len(infectLog)])]_vars

\* a Zombie with a Hospital next to it has moved to its other neighbour
C12_Witness ==
    /\ pc = "sweep"
    /\ \E i \in 1..Len(snapshot) :
          /\ i < idx
          /\ cls[snapshot[i].value] = "Zombie"
          /\ get_entity(grid, snapshot[i].key) = None
          /\ \E o \in OFFSETS :
                /\ get_entity(grid, add(snapshot[i].key, o)) # None
                /\ cls[get_entity(grid, add(snapshot[i].key, o))] = "Hospital"

\* the transition is a handle_action of a fire action in a valid direction,
\* with a Crossbow held
FiresValid ==
    /\ pc = "input" /\ pc' = "sweep"
    /\ lastAction'.action = FIRE
    /\ lastAction'.fire_direction \in DIRECTIONS

\* the cell k cells from position along offset
Along(position, offset, k) ==
    Position(get_x(position) + k * get_x(offset), get_y(position) + k * get_y(offset))

\* the first cell from position along offset that is non-empty or out of
\* the grid
FirstMet(g, position, offset) ==
    LET met(k) == \/ ~in_bounds(g, Along(position, offset, k))
                  \/ get_entity(g, Along(position, offset, k)) # None
    IN  Along(position, offset,
              CHOOSE k \in 1..g.size : met(k) /\ \A j \in 1..(k - 1) : ~met(j))

\* C13: a fire action in a valid direction meets a first cell c, walking
\* from the player, that is non-empty or out of the grid; if c is in the grid
\* and holds a Zombie or TrackingZombie that entity, and nothing else, is
\* removed from the grid; otherwise the no-target message is printed and the
\* grid is left as it was.
C13_FireFirstMet ==
    [][FiresValid =>
          LET c == FirstMet(grid, find_player(grid),
                            direction_to_offset(lastAction'.fire_direction))
              hit == in_bounds(grid, c) /\ IsZombie(get_entity(grid, c))
          IN  IF hit
              THEN /\ Range(grid'.entities) = Range(grid.entities) \ {get_entity(grid, c)}
                   /\ get_entity(grid', c) = None
                   /\ \A p \in Cells(grid.size) \ {c} :
                         get_entity(grid', p) = get_entity(grid, p)
                   /\ NO_ZOMBIE_MESSAGE \notin Range(printed')
              ELSE /\ printed' = <<NO_ZOMBIE_MESSAGE>>
                   /\ grid' = grid]_vars

\* a shot has passed an empty cell and removed the zombie behind it
C13_Witness ==
    /\ pc = "sweep"
    /\ idx = 1
    /\ lastAction.action = FIRE
    /\ lastAction.fire_direction \in DIRECTIONS
    /\ Len(grid.entities) = Len(pre.grid.entities) - 1
    /\ LET player_position == find_player(pre.grid)
           offset == direction_to_offset(lastAction.fire_direction)
       IN  /\ get_entity(pre.grid, Along(player_position, offset, 1)) = None
           /\ IsZombie(get_entity(pre.grid, Along(player_position, offset, 2)))
           /\ get_entity(grid, Along(player_position, offset, 2)) = None

\* the transition is a handle_action of a fire action
Fires == pc = "input" /\ pc' = "sweep" /\ lastAction'.action = FIRE

HoldsCrossbow == \E i \in 1..Len(items) : cls[items[i]] = "Crossbow"

\* the fire action of the transition removes a zombie
Hits ==
    /\ FiresValid
    /\ LET c == FirstMet(grid, find_player(grid),
                         direction_to_offset(lastAction'.fire_direction))
       IN  in_bounds(grid, c) /\ IsZombie(get_entity(grid, c))

\* C14: a fire action that hits no zombie (no Crossbow held, a firing
\* direction that is none of the four, or no zombie first in line) leaves
\* every cell's occupant, the player's position, the inventory and its
\* lifetimes and the infected flag as they were when the step sweep starts;
\* with no Crossbow held no firing direction is asked for.
C14_MissChangesNothing ==
    [][Fires =>
          /\ ~Hits =>
                /\ \A p \in Cells(grid.size) : get_entity(grid', p) = get_entity(grid, p)
                /\ get_entities(grid') = get_entities(grid)
                /\ find_player(grid') = find_player(grid)
                /\ items' = items
                /\ remaining_steps' = remaining_steps
                /\ infected' = infected
          /\ ~HoldsCrossbow => lastAction'.fire_direction = ""]_vars

\* a shot has stopped at a Hospital with a zombie in the cell behind it
C14_Witness ==
    /\ pc = "sweep"
    /\ idx = 1
    /\ lastAction.action = FIRE
    /\ lastAction.fire_direction \in DIRECTIONS
    /\ printed = <<NO_ZOMBIE_MESSAGE>>
    /\ LET player_position == find_player(grid)
           offset == direction_to_offset(lastAction.fire_direction)
           c == FirstMet(grid, player_position, offset)
       IN  /\ in_bounds(grid, c)
           /\ cls[get_entity(grid, c)] = "Hospital"
           /\ IsZombie(get_entity(grid, add(c, offset)))

\* the transition is a handle_action of an action token the interface does
\* not know
Unrecognized ==
    /\ pc = "input" /\ pc' = "sweep"
    /\ lastAction'.action \notin DIRECTIONS
    /\ interfaceClass = "AdvancedTextInterface" => lastAction'.action # FIRE

\* ... of a fire action with no Crossbow held, with a firing direction that
\* is none of the four, with no zombie first in line
NoWeapon == Fires /\ interfaceClass = "AdvancedTextInterface" /\ ~HoldsCrossbow
InvalidDirection ==
    /\ Fires /\ interfaceClass = "AdvancedTextInterface" /\ HoldsCrossbow
    /\ lastAction'.fire_direction \notin DIRECTIONS
NoTarget == FiresValid /\ ~Hits

LifetimeChange(e) == remaining_steps[e] - pre.remaining_steps[e]
IdleChange(e) ==
    Inventory_step(pre.items, pre.remaining_steps).remaining_steps[e]
       - pre.remaining_steps[e]

\* C16: when the sweep of a fire action has ended, in a game not yet won or
\* lost, the remaining lifetime of the Crossbow held when the action was
\* taken has changed by what an action that is not a fire changes it by from
\* the same state: one less.
C16_FireAgesByOne ==
    (SweepDone /\ lastAction.action = FIRE /\ outcome = "none") =>
       \A e \in Range(pre.items) :
          cls[e] = "Crossbow" =>
             /\ LifetimeChange(e) = IdleChange(e)
             /\ LifetimeChange(e) = -1

\* the transition is a handle_action that moves the player, and the cell the
\* move is aimed at
Moves == pc = "input" /\ pc' = "sweep" /\ lastAction'.action \in DIRECTIONS
Destination == add(find_player(grid), direction_to_offset(lastAction'.action))

\* C17: when the destination of a player's move in an AdvancedGame holds a
\* Pickup, the move leaves that Pickup at the end of the inventory, behind
\* the items held before, and off the grid; and in every state no Pickup is
\* on the grid and in the inventory, and none is in the inventory twice.
C17_PickupCollected ==
    /\ [](\A e \in Pickups :
             /\ ~(e \in Range(grid.entities) /\ e \in Range(items))
             /\ ~(e \in Range(values(grid)) /\ e \in Range(items))
             /\ Count(items, e) <= 1)
    /\ [][(Moves /\ gameClass = "AdvancedGame" /\ IsPickup(get_entity(grid, Destination))) =>
             /\ items' = Append(items, get_entity(grid, Destination))
             /\ get_entity(grid, Destination) \notin Range(grid'.entities)
             /\ get_entity(grid, Destination) \notin Range(values(grid'))
             /\ find_player(grid') = Destination]_vars

\* the player has walked onto a second Pickup, which is now the last item
\* of the inventory and is on the grid no more
C17_Witness ==
    /\ pc = "sweep"
    /\ idx = 1
    /\ Len(items) = 2
    /\ Len(pre.items) = 1
    /\ get_entity(pre.grid, find_player(grid)) = items[2]
    /\ items[2] \notin Range(grid.entities)

\* the entity the player's move of this turn has evicted (None: none)
Evicted ==
    IF pc = "sweep" /\ lastAction.action \in DIRECTIONS
       /\ find_player(pre.grid) # NoPosition
       /\ in_bounds(pre.grid, add(find_player(pre.grid),
                                   direction_to_offset(lastAction.action)))
    THEN get_entity(pre.grid, add(find_player(pre.grid),
                                  direction_to_offset(lastAction.action)))
    ELSE None

\* C18: a player's move to a destination in the grid puts the player there
\* and takes the entity that was there, of whatever class, off the grid,
\* and leaves the infected flag alone; and the entity evicted is off the
\* grid for the whole sweep of that turn, in which its behaviour does not
\* run and it does not infect.
C18_MoveEvicts ==
    /\ [][(Moves /\ in_bounds(grid, Destination)) =>
             /\ find_player(grid') = Destination
             /\ get_entity(grid', Destination) = get_player(grid)
             /\ get_entity(grid', find_player(grid)) = None
             /\ get_entity(grid, Destination) # None =>
                   /\ get_entity(grid, Destination) \notin Range(grid'.entities)
                   /\ get_entity(grid, Destination) \notin Range(values(grid'))
             /\ infected' = infected]_vars
    /\ [](Evicted # None =>
             /\ Evicted \notin Range(grid.entities)
             /\ Evicted \notin Range(invoked)
             /\ Evicted \notin Range(infectLog))

\* the player has walked onto a zombie's cell and the sweep of that turn
\* has ended, the player not infected
C18_Witness ==
    /\ SweepDone
    /\ Evicted # None
    /\ IsZombie(Evicted)
    /\ Len(invoked) >= 1
    /\ ~infected

Added(g, position, entity, g2) ==
    LET occupant == get_entity(g, position)
    IN  /\ get_entity(g2, position) = entity
        /\ Len(g2.entities) > 0
        /\ g2.entities[Len(g2.entities)] = entity
        /\ occupant # None =>
              occupant \notin Range(g2.entities) /\ occupant \notin Range(values(g2))
        /\ \A p \in Cells(g.size) \ {position} : get_entity(g2, p) = get_entity(g, p)
        /\ SubSeq(g2.entities, 1, Len(g2.entities) - 1)
              = SelectSeq(g.entities, LAMBDA x : x # occupant)

\* C20: add_entity of a newly constructed entity at a cell of the grid
\* leaves the cell holding the entity and the entity last in the list, the
\* cell's previous occupant in neither the dictionary nor the list, and all
\* other occupants and their order in the list as they were; this holds of
\* each cell in every state, and of the calls made.
C20_AddEntity ==
    /\ [](\A position \in Cells(grid.size) :
             Added(grid, position, Len(cls) + 1,
                   add_entity(grid, position, Len(cls) + 1)))
    /\ [][Len(cls') = Len(cls) + 1 =>
             \E position \in Positions :
                IF in_bounds(grid, position)
                THEN Added(grid, position, Len(cls'), grid')
                ELSE grid' = grid]_vars

\* the entity constructed last is on the cell the player was loaded on,
\* and the player is on the grid no more
C20_Witness ==
    /\ pc = "input"
    /\ no_steps = 0
    /\ Len(cls) > 1
    /\ get_entity(grid, Position(0, 0)) = Len(cls)
    /\ grid.entities[Len(grid.entities)] = Len(cls)
    /\ 1 \notin Range(grid.entities)

\* the positions up to one cell off the grid, and those of them off the grid
Around(size) == {Position(x, y) : x \in (-1)..size, y \in (-1)..size}
Outside(size) == Around(size) \ Cells(size)

\* C21: add_entity and remove_entity at a position out of the grid,
\* move_entity with start or end out of the grid, and move_entity from an
\* empty cell each leave the dictionary and the list exactly as they were,
\* the occupant of the end cell included; get_entity out of the grid gives
\* None; and a player's move off an edge of the grid changes neither grid
\* nor inventory.
C21_OutOfBoundsNoOp ==
    /\ [](/\ \A position \in Outside(grid.size) :
               /\ add_entity(grid, position, Len(cls) + 1) = grid
               /\ remove_entity(grid, position) = grid
               /\ get_entity(grid, position) = None
               /\ \A other \in Around(grid.size) :
                     /\ move_entity(grid, position, other) = grid
                     /\ move_entity(grid, other, position) = grid
           /\ \A start, end \in Cells(grid.size) :
                 get_entity(grid, start) = None => move_entity(grid, start, end) = grid)
    /\ [][(Moves /\ ~in_bounds(grid, Destination)) =>
             grid' = grid /\ items' = items]_vars

\* the player's move of this turn was aimed off the grid, with another
\* entity on the grid
C21_Witness ==
    /\ pc = "sweep"
    /\ idx = 1
    /\ lastAction.action \in DIRECTIONS
    /\ ~in_bounds(pre.grid, add(find_player(pre.grid),
                                direction_to_offset(lastAction.action)))
    /\ Len(grid.entities) = 2
    /\ grid = pre.grid

\* C22: in_bounds(p) is TRUE exactly for the positions p whose two
\* coordinates are both at least 0 and less than size, negative coordinates
\* included, and FALSE for the others; and every key of the dictionary is
\* such a position.
C22_InBounds ==
    /\ \A x, y \in (-2)..(grid.size + 1) :
          in_bounds(grid, Position(x, y))
             = (x \in 0..(grid.size - 1) /\ y \in 0..(grid.size - 1))
    /\ \A i \in 1..Len(grid.EntityLocations) :
          /\ get_x(grid.EntityLocations[i].key) \in 0..(grid.size - 1)
          /\ get_y(grid.EntityLocations[i].key) \in 0..(grid.size - 1)

\* an entity was constructed and is not on the grid, the player still is,
\* and no turn has been played
C22_Witness ==
    /\ pc = "input"
    /\ no_steps = 0
    /\ Len(cls) = 2
    /\ grid.entities = <<1>>
    /\ get_entity(grid, Position(1, 1)) = 1

Players(l) == {i \in 1..Len(l) : IsPlayer(l[i])}

\* C23: a game played on a map with one player has, in every state, exactly
\* one Player in the list and one in the dictionary: no player move, fire
\* action or zombie step removes the player or adds another.
C23_OnePlayer ==
    /\ Cardinality(Players(grid.entities)) = 1
    /\ Cardinality(Players(values(grid))) = 1

\* the player has moved next to a zombie, which has then called infect()
C23_Witness ==
    /\ pc = "sweep"
    /\ lastAction.action \in DIRECTIONS
    /\ find_player(grid) # find_player(pre.grid)
    /\ Len(infectLog) > 0
    /\ Cardinality(Players(grid.entities)) = 1

\* C25: from every state the fire walk in each of the four directions ends
\* within size iterations; and the loop of Game.step ends within as many
\* behaviours as its snapshot has items: the snapshot stays as it is, every
\* behaviour takes the loop one item further, and past the last item the
\* only step is the return.
C25_TurnCompletes ==
    /\ [](find_player(grid) # NoPosition =>
             \A fire_direction \in DIRECTIONS :
                fire_loop(grid, find_player(grid), fire_direction, 1).iterations
                   <= grid.size)
    /\ [](pc = "sweep" =>
             /\ idx <= Len(snapshot) + 1
             /\ Len(invoked) = idx - 1
             /\ Len(snapshot) <= grid.size * grid.size)
    /\ [][pc = "sweep" =>
             \/ idx <= Len(snapshot) /\ idx' = idx + 1 /\ snapshot' = snapshot
                   /\ pc' = "sweep"
             \/ idx = Len(snapshot) + 1 /\ pc' = "input"]_vars

\* a turn has ended whose shot walked over two empty cells and off the grid
C25_Witness ==
    /\ SweepDone
    /\ lastAction.action = FIRE
    /\ lastAction.fire_direction \in DIRECTIONS
    /\ printed = <<NO_ZOMBIE_MESSAGE>>
    /\ fire_loop(pre.grid, find_player(pre.grid), lastAction.fire_direction, 1).iterations
          = grid.size

\* where the action of the turn being played puts the player
PostAction ==
    LET start_position == find_player(pre.grid)
        end_position == add(start_position, direction_to_offset(lastAction.action))
    IN  IF lastAction.action \in DIRECTIONS /\ in_bounds(pre.grid, end_position)
        THEN end_position
        ELSE start_position

\* C26: all through the sweep of a turn the player is where the action of
\* the turn put it, and an entity the action took off the grid has no
\* behaviour run; a zombie that calls infect() is next to that position, and
\* a TrackingZombie tries its offsets in the order of their distance to it.
C26_ActionBeforeSweep ==
    /\ [](pc = "sweep" =>
             /\ find_player(grid) = PostAction
             /\ idx = 1 => snapshot = get_mapping(grid)
             /\ \A e \in Range(pre.grid.entities) \ Range(grid.entities) :
                   e \notin Range(invoked))
    /\ [][pc = "sweep" =>
             /\ find_player(grid') = find_player(grid)
             /\ Len(infectLog') > Len(infectLog) => distance(key, PostAction) = 1
             /\ (InSweep /\ cls[value] = "TrackingZombie") =>
                   LET order == PursuitOrder(key, PostAction)
                   IN  grid' = TrackingZombie_step_loop(grid, key,
                                  << <<order[1]>>, <<order[2]>>, <<order[3]>>,
                                     <<order[4]>> >>, 1).grid]_vars

\* the player has moved and a TrackingZombie has then stepped to the cell
\* nearest the player's new position, which is not the cell it tries first
\* for the old one
C26_Witness ==
    /\ SweepDone
    /\ lastAction.action \in DIRECTIONS
    /\ find_player(grid) # find_player(pre.grid)
    /\ \E i \in 1..Len(snapshot) :
          /\ cls[snapshot[i].value] = "TrackingZombie"
          /\ get_entity(grid, add(snapshot[i].key,
                                   PursuitOrder(snapshot[i].key, PostAction)[1]))
                = snapshot[i].value
          /\ PursuitOrder(snapshot[i].key, PostAction)[1]
                # PursuitOrder(snapshot[i].key, find_player(pre.grid))[1]

\* C27: for all cells start and end of the grid, start holding an entity,
\* the list after move_entity(start, end) is the list before without the
\* other entity that end held, if any: the moved entity, the same object, is
\* in its old place among those that stay; and no step that constructs no
\* entity changes the order of the entities that stay in the list.
C27_MoveKeepsSlot ==
    /\ [](\A start, end \in Cells(grid.size) :
             get_entity(grid, start) # None =>
                LET moved == move_entity(grid, start, end)
                    entity == get_entity(grid, start)
                    occupant == get_entity(grid, end)
                IN  /\ get_entity(moved, end) = entity
                    /\ moved.entities
                          = SelectSeq(grid.entities,
                                      LAMBDA x : x = entity \/ x # occupant))
    /\ [][cls' = cls =>
             grid'.entities
                = SelectSeq(grid.entities, LAMBDA x : x \in Range(grid'.entities))]_vars

\* the player, first in the list, has left the cell it was loaded on and is
\* still first in the list, ahead of an entity added later
C27_Witness ==
    /\ pc = "input"
    /\ get_entity(grid, Position(0, 0)) = None
    /\ Len(grid.entities) = 2
    /\ grid.entities[1] = 1
    /\ IsPlayer(grid.entities[1])
    /\ values(grid)[2] = 1

\* the entities of get_mapping() in its order, and the key an entity has in it
Mapped(g) == [i \in 1..Len(get_mapping(g)) |-> get_mapping(g)[i].value]
KeyOf(g, e) == get_mapping(g)[CHOOSE i \in 1..Len(get_mapping(g)) :
                                 get_mapping(g)[i].value = e].key

\* C28 as stated: get_mapping() enumerates the occupants in the order of
\* get_entities(), each with its current position.
C28_MappingInListOrder ==
    /\ Mapped(grid) = get_entities(grid)
    /\ \A i \in 1..Len(get_mapping(grid)) :
          get_entity(grid, get_mapping(grid)[i].key) = get_mapping(grid)[i].value

\* C28: get_mapping() enumerates the entities of get_entities(), each once
\* and with its current position, in the order in which they came to their
\* cells: a step leaves the entities that stay on their cells in the order
\* they had and puts an entity that has changed cell behind them, while
\* get_entities() keeps that entity in its place.
C28_MappingInArrivalOrder ==
    /\ [](/\ Range(Mapped(grid)) = Range(get_entities(grid))
           /\ Len(get_mapping(grid)) = Len(get_entities(grid))
           /\ \A i \in 1..Len(get_mapping(grid)) :
                 /\ Count(Mapped(grid), get_mapping(grid)[i].value) = 1
                 /\ get_entity(grid, get_mapping(grid)[i].key)
                       = get_mapping(grid)[i].value)
    /\ [][LET stays == {e \in Range(Mapped(grid)) \cap Range(Mapped(grid')) :
                           KeyOf(grid', e) = KeyOf(grid, e)}
               before == [i \in 1..Len(get_mapping(grid)) |-> get_mapping(grid)[i].value]
               after == [i \in 1..Len(get_mapping(grid')) |-> get_mapping(grid')[i].value]
           IN  /\ after = SelectSeq(before, LAMBDA e : e \in stays)
                             \o SelectSeq(after, LAMBDA e : e \notin stays)
               /\ get_entities(grid')
                     = SelectSeq(get_entities(grid),
                                 LAMBDA e : e \in Range(get_entities(grid')))]_vars

\* between turns get_mapping() has its first two entities in the opposite
\* order of get_entities()
C28_Witness ==
    /\ pc = "input"
    /\ Len(get_entities(grid)) >= 3
    /\ get_mapping(grid)[1].value = get_entities(grid)[2]
    /\ get_mapping(grid)[2].value = get_entities(grid)[1]

\* C29: whenever a behaviour is invoked in a sweep its entity is on the
\* snapshot position passed to it, and a zombie whose step changes the grid
\* has left that position for a neighbouring cell itself, every other
\* entity staying where it was.
C29_InvokedOnSnapshotCell ==
    /\ [](pc = "sweep" /\ idx <= Len(snapshot)
             => get_entity(grid, snapshot[idx].key) = snapshot[idx].value)
    /\ [][pc = "sweep" /\ idx <= Len(snapshot) /\ grid' # grid
             => /\ IsZombie(snapshot[idx].value)
                /\ get_entity(grid', snapshot[idx].key) = None
                /\ \E offset \in Range(offsets_list) :
                      get_entity(grid', add(snapshot[idx].key, offset)) = snapshot[idx].value
                /\ \A j \in 1..Len(snapshot) :
                      j # idx => \E p \in Cells(grid.size) :
                                   /\ get_entity(grid, p) = snapshot[j].value
                                   /\ get_entity(grid', p) = snapshot[j].value]_vars

\* a zombie that is not the first of its sweep is about to be invoked after
\* an earlier zombie of the sweep has moved
C29_Witness ==
    /\ pc = "sweep"
    /\ idx > 1
    /\ idx <= Len(snapshot)
    /\ IsZombie(snapshot[idx].value)
    /\ \E j \in 1..(idx - 1) :
          /\ IsZombie(snapshot[j].value)
          /\ get_entity(grid, snapshot[j].key) # snapshot[j].value

\* the cells of g that hold entity e
CellsOf(g, e) == {p \in Cells(g.size) : get_entity(g, p) = e}

\* C30: a sweep removes no entity: each of its steps leaves the grid as it
\* is or moves the invoked zombie to an orthogonally adjacent cell in
\* bounds that was empty, so the grid holds the entities the sweep began
\* with, each on one cell, and no cell is a key twice.
C30_SweepKeepsEntities ==
    /\ [](pc = "sweep"
             => /\ Range(get_entities(grid)) = Range(sweepStart)
                /\ Len(get_entities(grid)) = Len(sweepStart)
                /\ {get_mapping(grid)[i].value : i \in 1..Len(get_mapping(grid))}
                      = Range(sweepStart)
                /\ \A e \in Range(sweepStart) : Cardinality(CellsOf(grid, e)) = 1
                /\ \A i, j \in 1..Len(get_mapping(grid)) :
                      get_mapping(grid)[i].key = get_mapping(grid)[j].key => i = j)
    /\ [][pc = "sweep" /\ idx <= Len(snapshot) /\ pc' = "sweep"
             => \/ grid' = grid
                \/ /\ IsZombie(snapshot[idx].value)
                   /\ \E offset \in Range(offsets_list) :
                         LET destination == add(snapshot[idx].key, offset)
                         IN  /\ in_bounds(grid, destination)
                             /\ get_entity(grid, destination) = None
                             /\ Relocated(grid, grid', snapshot[idx].key, destination)]_vars

\* a sweep has ended in which a zombie left its cell while a hospital or a
\* pickup lay on a cell next to it
C30_Witness ==
    /\ SweepDone
    /\ \E i \in 1..Len(snapshot) :
          /\ IsZombie(snapshot[i].value)
          /\ get_entity(grid, snapshot[i].key) = None
          /\ \E offset \in Range(offsets_list) :
                LET e == get_entity(grid, add(snapshot[i].key, offset))
                IN  e # None /\ ~IsPlayer(e) /\ ~IsZombie(e)

\* C31: the infected flag changes only from false to true, only in the step
\* of a sweep that invokes a Zombie or TrackingZombie orthogonally adjacent
\* to the player, and only while the inventory holds no Garlic; the
\* handling of an action (move, pickup, fire) leaves the flag as it was.
C31_InfectedOnlyByAdjacentZombie ==
    [][/\ infected' # infected
          => /\ infected = FALSE
             /\ infected' = TRUE
             /\ pc = "sweep"
             /\ idx <= Len(snapshot)
             /\ IsZombie(snapshot[idx].value)
             /\ get_entity(grid, snapshot[idx].key) = snapshot[idx].value
             /\ distance(snapshot[idx].key, find_player(grid)) = 1
             /\ ~contains(items, GARLIC)
       /\ pc = "input" => infected' = infected]_vars

\* the player has been infected in the sweep that followed a move
C31_Witness ==
    /\ pc = "sweep"
    /\ pre # NoPre
    /\ ~pre.infected
    /\ infected
    /\ lastAction.action \in DIRECTIONS
    /\ find_player(grid) # find_player(pre.grid)

\* a zombie next to the player has acted while the inventory held Garlic
C31_GarlicWitness ==
    /\ pc = "sweep"
    /\ ~infected
    /\ contains(items, GARLIC)
    /\ \E i \in 1..(idx - 1) :
          /\ i <= Len(snapshot)
          /\ IsZombie(snapshot[i].value)
          /\ distance(snapshot[i].key, find_player(grid)) = 1
          /\ get_entity(grid, snapshot[i].key) = snapshot[i].value

\* the invoked entity is on a cell orthogonally adjacent to the player
InvokedNextToPlayer ==
    /\ pc = "sweep"
    /\ idx <= Len(snapshot)
    /\ find_player(grid) # NoPosition
    /\ distance(snapshot[idx].key, find_player(grid)) = 1

\* C32: the step of a TrackingZombie that is orthogonally adjacent to the
\* player calls the player's infect() and leaves the grid as it is,
\* whatever its other neighbouring cells hold.
C32_AdjacentTrackerInfects ==
    [][InvokedNextToPlayer /\ cls[snapshot[idx].value] = "TrackingZombie"
         => /\ grid' = grid
            /\ infectLog' = Append(infectLog, snapshot[idx].value)
            /\ infected' = infect(get_player(grid), items, infected)]_vars

\* a TrackingZombie with an empty cell beside it and the player next to it
\* has infected the player and is where it was
C32_Witness ==
    /\ pc = "sweep"
    /\ \E i \in 1..Len(snapshot) :
          /\ i < idx
          /\ cls[snapshot[i].value] = "TrackingZombie"
          /\ snapshot[i].value \in Range(infectLog)
          /\ get_entity(grid, snapshot[i].key) = snapshot[i].value
          /\ infected
          /\ \E offset \in Range(offsets_list) :
                /\ in_bounds(grid, add(snapshot[i].key, offset))
                /\ get_entity(grid, add(snapshot[i].key, offset)) = None

\* a wandering Zombie that was next to the player has moved away instead
C32_ZombieMovesAway ==
    /\ pc = "sweep"
    /\ \E i \in 1..Len(snapshot) :
          /\ i < idx
          /\ cls[snapshot[i].value] = "Zombie"
          /\ distance(snapshot[i].key, find_player(grid)) = 1
          /\ get_entity(grid, snapshot[i].key) = None

\* the Hospital entities in the list of entities of g
Hospitals(g) == {e \in Range(g.entities) : cls[e] = "Hospital"}

\* C33: once has_won() holds it holds after every later step; no step adds
\* a Hospital to the grid, and a step that takes a Hospital off the grid is
\* a move of the player onto the cell of that Hospital.
C33_WinningIsPermanent ==
    [][/\ has_won(grid) => has_won(grid')
       /\ Hospitals(grid') \subseteq Hospitals(grid)
       /\ \A e \in Hospitals(grid) \ Hospitals(grid') :
             /\ Moves
             /\ in_bounds(grid, Destination)
             /\ get_entity(grid, Destination) = e
             /\ IsPlayer(get_entity(grid', Destination))]_vars

\* after the player took the last Hospital, a later action has been handled
\* and a zombie of its sweep has acted
C33_Witness ==
    /\ pc = "sweep"
    /\ pre # NoPre
    /\ has_won(pre.grid)
    /\ has_won(grid)
    /\ outcome = WIN_MESSAGE
    /\ \E e \in 1..Len(cls) : cls[e] = "Hospital"
    /\ \E i \in 1..Len(invoked) : IsZombie(invoked[i])

\* a shot has met a Hospital first, and the Hospital is on the grid
C33_ShotAtHospital ==
    /\ pc = "sweep"
    /\ lastAction.action = FIRE
    /\ printed = <<NO_ZOMBIE_MESSAGE>>
    /\ \E k \in 1..grid.size :
          LET p == Along(find_player(grid),
                         direction_to_offset(lastAction.fire_direction), k)
          IN  in_bounds(grid, p) /\ get_entity(grid, p) \in Hospitals(grid)

\* the pickups that lie on the grid
Lying(g) == {e \in Range(g.entities) : IsPickup(e)}

\* C34: a pickup that lies on the grid has its durability as remaining
\* lifetime, also in the state in which it has just been collected; a step
\* changes the remaining lifetime only of an item the inventory holds, in
\* the player's behaviour of a sweep, and by one.
C34_LyingPickupKeepsLifetime ==
    /\ [](\A e \in Lying(grid) : remaining_steps[e] = get_durability(e))
    /\ [][/\ \A e \in Range(items') \ Range(items) :
                e \in Lying(grid) /\ remaining_steps'[e] = get_durability(e)
          /\ \A e \in Pickups :
                remaining_steps'[e] # remaining_steps[e]
                   => /\ e \in Range(items)
                      /\ e \notin Lying(grid)
                      /\ InSweep
                      /\ IsPlayer(snapshot[idx].value)
                      /\ remaining_steps'[e] = remaining_steps[e] - 1]_vars

\* a pickup has just been collected with its full lifetime, after sweeps in
\* which it lay on the grid while a held item lost three steps or more
C34_Witness ==
    /\ pc = "sweep"
    /\ idx = 1
    /\ pre # NoPre
    /\ \E e \in Range(items) \ Range(pre.items) :
          /\ remaining_steps[e] = get_durability(e)
          /\ \E held \in Range(pre.items) :
                remaining_steps[held] <= get_durability(held) - 3

\* the end of a turn of a game whose loop has not ended
TurnEnds == pc = "sweep" /\ pc' = "input" /\ outcome = "none"

\* C35: at the end of a turn play() ends with the win message when has_won()
\* holds, also when has_lost() holds with it; with the lose message when
\* only has_lost() holds; and goes on when neither holds.  So the loop ends
\* at the first turn after which one of the two holds: between turns, a
\* game that has had a turn and has not ended is neither won nor lost.
C35_WinCheckedFirst ==
    /\ [][TurnEnds
             => /\ has_won(grid) => outcome' = WIN_MESSAGE
                /\ ~has_won(grid) /\ has_lost(gameClass, infected)
                      => outcome' = LOSE_MESSAGE
                /\ ~has_won(grid) /\ ~has_lost(gameClass, infected)
                      => outcome' = "none"]_vars
    /\ [](pc = "input" /\ outcome = "none" /\ no_steps > 0
             => ~has_won(grid) /\ ~has_lost(gameClass, infected))

\* the first turn has ended with the win message: in it the player took
\* the only Hospital and was infected
C35_Witness ==
    /\ pc = "input"
    /\ no_steps = 1
    /\ outcome = WIN_MESSAGE
    /\ \E e \in 1..Len(cls) : cls[e] = "Hospital"
    /\ has_won(grid)
    /\ infected
    /\ has_lost(gameClass, infected)

\* the current turn is a move that has put the player on another cell
TurnRelocated ==
    /\ pc = "sweep"
    /\ pre # NoPre
    /\ lastAction.action \in DIRECTIONS
    /\ find_player(grid) # find_player(pre.grid)

\* the items of the inventory when the sweep of a move begins
SweepItems ==
    move_player(gameClass, pre.grid, pre.items,
                direction_to_offset(lastAction.action)).items

\* C36: in the sweep of a move that has relocated the player, the player is
\* the last item of the snapshot and the only player in it, so every zombie
\* of the sweep is invoked, with the inventory as the move left it, before
\* the player's behaviour ages the inventory; and when that inventory holds
\* Garlic the sweep leaves the infected flag as it was.
C36_MovedPlayerStepsLast ==
    pc = "sweep" /\ pre # NoPre /\ lastAction.action \in DIRECTIONS
                 /\ find_player(grid) # find_player(pre.grid)
       => /\ Len(snapshot) >= 1
          /\ IsPlayer(snapshot[Len(snapshot)].value)
          /\ \A i \in 1..(Len(snapshot) - 1) : ~IsPlayer(snapshot[i].value)
          /\ idx <= Len(snapshot) => items = SweepItems
          /\ (\E i \in 1..Len(invoked) : IsPlayer(invoked[i]))
                => \A j \in 1..Len(snapshot) :
                      IsZombie(snapshot[j].value) => snapshot[j].value \in Range(invoked)
          /\ cls[get_player(grid)] = "HoldingPlayer" /\ contains(SweepItems, GARLIC)
                => infected = pre.infected

\* the sweep of a move that relocated a player holding Garlic has ended; a
\* zombie of the sweep has called infect() and the player is not infected
C36_Witness ==
    /\ TurnRelocated
    /\ SweepDone
    /\ contains(SweepItems, GARLIC)
    /\ infectLog # <<>>
    /\ ~infected
    /\ IsPlayer(invoked[Len(invoked)])

\* in the sweep of a move that relocated the player the Garlic held at its
\* start has expired
C36_ExpiresInSweep ==
    /\ TurnRelocated
    /\ SweepDone
    /\ contains(SweepItems, GARLIC)
    /\ ~contains(items, GARLIC)

\* in a turn that has not relocated the player, the Garlic held when the
\* sweep began has expired in the player's behaviour and a zombie invoked
\* after it has infected the player
C36_StayingPlayerInfected ==
    /\ pc = "sweep"
    /\ pre # NoPre
    /\ find_player(grid) = find_player(pre.grid)
    /\ contains(pre.items, GARLIC)
    /\ ~contains(items, GARLIC)
    /\ ~pre.infected
    /\ infected

\* the places in order of the offsets that lead from position to a cell of
\* g that is in bounds and empty
FreePlaces(g, position, order) ==
    {k \in 1..Len(order) : /\ in_bounds(g, add(position, order[k]))
                           /\ get_entity(g, add(position, order[k])) = None}

\* C37: the step of a TrackingZombie that is not orthogonally adjacent to
\* the player changes the grid if and only if one of its neighbouring cells
\* is in bounds and empty; it then moves the zombie to the first such cell
\* in the order of ascending distance to the player (ties West, South,
\* North, East), and it never calls infect().
C37_TrackerTakesFirstEmpty ==
    [][(pc = "sweep" /\ idx <= Len(snapshot)
          /\ cls[snapshot[idx].value] = "TrackingZombie"
          /\ distance(snapshot[idx].key, find_player(grid)) > 1)
         => LET position == snapshot[idx].key
                order == PursuitOrder(position, find_player(grid))
                free == FreePlaces(grid, position, order)
            IN  /\ infectLog' = infectLog
                /\ infected' = infected
                /\ grid' # grid <=> free # {}
                /\ free # {}
                     => LET first == CHOOSE k \in free : \A j \in free : k <= j
                        IN  Relocated(grid, grid', position,
                                      add(position, order[first]))]_vars

\* a TrackingZombie has moved to a cell farther from the player than the
\* cell it left
C37_Witness ==
    /\ pc = "sweep"
    /\ \E i \in 1..Len(snapshot) :
          /\ i < idx
          /\ cls[snapshot[i].value] = "TrackingZombie"
          /\ get_entity(grid, snapshot[i].key) = None
          /\ \E offset \in OFFSETS :
                /\ get_entity(grid, add(snapshot[i].key, offset)) = snapshot[i].value
                /\ distance(add(snapshot[i].key, offset), find_player(grid))
                      > distance(snapshot[i].key, find_player(grid))

\* a TrackingZombie away from the player, every neighbouring cell of which
\* holds an entity or is out of bounds, has stayed where it was
C37_Blocked ==
    /\ pc = "sweep"
    /\ \E i \in 1..Len(snapshot) :
          /\ i < idx
          /\ cls[snapshot[i].value] = "TrackingZombie"
          /\ distance(snapshot[i].key, find_player(grid)) > 1
          /\ get_entity(grid, snapshot[i].key) = snapshot[i].value

====
